---- MODULE Spec2Model ----
(***************************************************************************)
(* Model of the JobFit backend (src/backend/main.py): the agent-result     *)
(* unwrapper extract_agent_data, the field extraction and validity gate of *)
(* analyze_job, and the conditional update of regenerate_job_content, over *)
(* a small relational store of resumes and jobs.                           *)
(*                                                                         *)
(* Python strings are sequences of one-character strings, so that strip,   *)
(* substring search, str() and int() are computed and not assumed.         *)
(* Python values of the loosely typed agent payload are tagged records     *)
(* [t |-> type, v |-> content].                                            *)
(***************************************************************************)
EXTENDS Integers, Sequences, FiniteSets, TLC

VARIABLES resumes, jobs, inflight, last, probe, gate

vars == <<resumes, jobs, inflight, last, probe, gate>>

(***************************************************************************)
(* Bounds of the model.                                                    *)
(***************************************************************************)
MaxPad == 1
MaxJobs == 1
MaxInflight == 1
MaxResumeId == 2

(***************************************************************************)
(* Strings.                                                                *)
(***************************************************************************)
Rep(c, n) == [i \in 1..n |-> c]

ErrorMarker == <<"E", "r", "r", "o", "r", ":">>
NearMarker == <<"E", "r", "r", "o", "r">>
UnknownCompany == <<"U", "n", "k", "n", "o", "w", "n", " ", "C", "o", "m", "p", "a", "n", "y">>
DefaultTitle == <<"J", "o", "b", " ", "T", "i", "t", "l", "e">>
Acme == <<"A", "c", "m", "e">>
Dev == <<"D", "e", "v">>

Whitespace == {" ", "\n", "\t"}

\* str.strip(): drop leading and trailing whitespace.
RECURSIVE lstrip(_)
lstrip(s) ==
    IF s = <<>> THEN <<>>
    ELSE IF Head(s) \in Whitespace THEN lstrip(Tail(s)) ELSE s

RECURSIVE rstrip(_)
rstrip(s) ==
    IF s = <<>> THEN <<>>
    ELSE IF s[Len(s)] \in Whitespace THEN rstrip(SubSeq(s, 1, Len(s) - 1)) ELSE s

strip(s) == rstrip(lstrip(s))

\* sub in s
Contains(s, sub) ==
    \E i \in 1..(Len(s) - Len(sub) + 1) : SubSeq(s, i, i + Len(sub) - 1) = sub

\* s.startswith(pre)
StartsWith(s, pre) == Len(s) >= Len(pre) /\ SubSeq(s, 1, Len(pre)) = pre

Digits == <<"0", "1", "2", "3", "4", "5", "6", "7", "8", "9">>

DigitVal(c) == CHOOSE d \in 0..9 : Digits[d + 1] = c

IsDigit(c) == \E d \in 0..9 : Digits[d + 1] = c

\* str(n) of a non-negative int
RECURSIVE IntToStr(_)
IntToStr(n) == IF n < 10 THEN <<Digits[n + 1]>> ELSE IntToStr(n \div 10) \o <<Digits[(n % 10) + 1]>>

\* the value of a string of decimal digits
RECURSIVE DigitsToInt(_)
DigitsToInt(s) == IF s = <<>> THEN 0 ELSE 10 * DigitsToInt(SubSeq(s, 1, Len(s) - 1)) + DigitVal(s[Len(s)])

(***************************************************************************)
(* Python values held by payload attributes.                               *)
(*   none  None                                                            *)
(*   mock  unittest.mock.MagicMock: callable, truthy, len() = 0,           *)
(*         iterates as empty, "x in mock" is False, subscriptable          *)
(*   str   a string               int  an int                              *)
(*   inf   float("inf")           list a list of strings                   *)
(***************************************************************************)
NoneV == [t |-> "none"]
MockV == [t |-> "mock"]
InfV == [t |-> "inf"]
StrV(s) == [t |-> "str", v |-> s]
IntV(n) == [t |-> "int", v |-> n]
ListV(l) == [t |-> "list", v |-> l]

(***************************************************************************)
(* Python objects an agent call can hand back.                             *)
(*   result  the agent result: a usage accessor (absent, raising, not      *)
(*           callable, or returning token counts) and zero or more slots   *)
(*   obj     a payload object with named attributes                        *)
(*   str     a plain string      none  None                                *)
(***************************************************************************)
NoneObj == [kind |-> "none"]
StrObj(s) == [kind |-> "str", s |-> s]
DataObj(attrs) == [kind |-> "obj", attrs |-> attrs]
ResultObj(usage, slots) == [kind |-> "result", usage |-> usage, slots |-> slots]

SlotOrder == <<"output", "data", "result", "content", "message", "text">>

TokenAttrs == {"total_tokens", "request_tokens", "response_tokens"}

\* hasattr(obj, name)
hasattr(obj, name) ==
    CASE obj.kind = "result" -> (name = "usage" /\ obj.usage.k # "absent") \/ name \in DOMAIN obj.slots
      [] obj.kind = "obj" -> name \in DOMAIN obj.attrs
      [] OTHER -> FALSE

\* getattr(obj, name, default) on a slot or attribute name
getattr(obj, name, default) ==
    CASE obj.kind = "result" /\ name \in DOMAIN obj.slots -> obj.slots[name]
      [] obj.kind = "obj" /\ name \in DOMAIN obj.attrs -> obj.attrs[name]
      [] OTHER -> default

\* what result.usage() hands back: token counts under zero or more of TokenAttrs
TokenLog(usage) ==
    <<IF "total_tokens" \in DOMAIN usage.tokens THEN usage.tokens["total_tokens"] ELSE 0,
      IF "request_tokens" \in DOMAIN usage.tokens THEN usage.tokens["request_tokens"] ELSE 0,
      IF "response_tokens" \in DOMAIN usage.tokens THEN usage.tokens["response_tokens"] ELSE 0>>

\* main.py 118-127 with the try/except removed: the accessor's failure escapes.
UsageProbeUncaught(result) ==
    IF ~hasattr(result, "usage") THEN [exc |-> FALSE, log |-> <<>>]
    ELSE IF result.usage.k \in {"raises", "notcallable"} THEN [exc |-> TRUE, log |-> <<>>]
    ELSE [exc |-> FALSE, log |-> TokenLog(result.usage)]

\* main.py 118-127: best-effort token telemetry; every exception is swallowed.
UsageProbe(result) ==
    IF ~hasattr(result, "usage") THEN [exc |-> FALSE, log |-> <<>>]
    ELSE IF result.usage.k \in {"raises", "notcallable"} THEN [exc |-> FALSE, log |-> <<>>]
    ELSE [exc |-> FALSE, log |-> TokenLog(result.usage)]

\* the loops of main.py 130-140: the first attribute of attrs whose value is not None
RECURSIVE ProbeSlots(_, _)
ProbeSlots(result, attrs) ==
    IF attrs = <<>> THEN NoneObj
    ELSE LET data == getattr(result, Head(attrs), NoneObj)
         IN IF data # NoneObj THEN data ELSE ProbeSlots(result, Tail(attrs))

\* the slot probe with "data" ahead of "output"
extract_agent_data_swapped(result) ==
    LET u == UsageProbe(result)
        a == ProbeSlots(result, <<"data", "output">>)
        b == ProbeSlots(result, <<"result", "content", "message">>)
    IN [exc |-> u.exc, log |-> u.log,
        value |-> IF a # NoneObj THEN a
                  ELSE IF b # NoneObj THEN b
                  ELSE IF hasattr(result, "text") THEN result.slots["text"]
                  ELSE result]

\* main.py 113-148
extract_agent_data(result) ==
    LET u == UsageProbe(result)
        a == ProbeSlots(result, <<"output", "data">>)
        b == ProbeSlots(result, <<"result", "content", "message">>)
    IN [exc |-> u.exc, log |-> u.log,
        value |-> IF a # NoneObj THEN a
                  ELSE IF b # NoneObj THEN b
                  ELSE IF hasattr(result, "text") THEN result.slots["text"]
                  ELSE result]

(***************************************************************************)
(* The validity gate of analyze_job.                                       *)
(***************************************************************************)
MinJDLength == 50

\* bool(v)
Truthy(v) ==
    CASE v.t = "none" -> FALSE
      [] v.t = "str" -> v.v # <<>>
      [] v.t = "int" -> v.v # 0
      [] v.t = "list" -> v.v # <<>>
      [] OTHER -> TRUE

\* v[:100] is defined (a str, a list, a MagicMock); None and numbers raise TypeError
Sliceable(v) == v.t \in {"str", "list", "mock"}

\* the gate with the minimum length compared by <= instead of <
jd_gate_off_by_one(extracted_jd) ==
    IF ~Truthy(extracted_jd)
    THEN IF Sliceable(extracted_jd) THEN "http400" ELSE "error"
    ELSE IF extracted_jd.t \in {"int", "inf"} THEN "error"
    ELSE IF extracted_jd.t = "str" /\ Contains(extracted_jd.v, ErrorMarker) THEN "http400"
    ELSE IF extracted_jd.t = "list" /\ (\E i \in 1..Len(extracted_jd.v) : extracted_jd.v[i] = ErrorMarker)
         THEN "http400"
    ELSE IF extracted_jd.t = "list" THEN "error"
    ELSE IF (IF extracted_jd.t = "mock" THEN 0 ELSE Len(strip(extracted_jd.v))) <= MinJDLength
         THEN "http400"
    ELSE "ok"

\* main.py 471-479: "ok" when the description passes, "http400" when the
\* HTTPException(400) is raised, "error" when evaluating the condition or the
\* log line raises (TypeError, AttributeError):
\*   not extracted_jd                 true for None, "", 0, []
\*   "Error:" in extracted_jd         TypeError for numbers
\*   len(extracted_jd.strip()) < 50   AttributeError for a list; 0 for a MagicMock
\*   extracted_jd[:100]               TypeError for None and numbers
jd_gate(extracted_jd) ==
    IF ~Truthy(extracted_jd)
    THEN IF Sliceable(extracted_jd) THEN "http400" ELSE "error"
    ELSE IF extracted_jd.t \in {"int", "inf"} THEN "error"
    ELSE IF extracted_jd.t = "str" /\ Contains(extracted_jd.v, ErrorMarker) THEN "http400"
    ELSE IF extracted_jd.t = "list" /\ (\E i \in 1..Len(extracted_jd.v) : extracted_jd.v[i] = ErrorMarker)
         THEN "http400"
    ELSE IF extracted_jd.t = "list" THEN "error"
    ELSE IF (IF extracted_jd.t = "mock" THEN 0 ELSE Len(strip(extracted_jd.v))) < MinJDLength
         THEN "http400"
    ELSE "ok"

(***************************************************************************)
(* analyze_job after the agent has answered (main.py 445-511).             *)
(***************************************************************************)
\* callable(v): hasattr(v, "__call__")
Callable(v) == v.t = "mock"

\* len(v) of a value that has a length
PyLen(v) == IF v.t = "mock" THEN 0 ELSE Len(v.v)

\* v[0] of a non-empty list of strings or of a non-empty string
First(v) == IF v.t = "list" THEN StrV(v.v[1]) ELSE StrV(<<v.v[1]>>)

\* main.py 457: iterating key_improvements raises TypeError unless it is iterable
preview_raises(data) ==
    getattr(data, "key_improvements", ListV(<<>>)).t \in {"none", "int", "inf"}

\* the fallback taking the last improvement instead of the first
company_fallback_last(company, data) ==
    IF company = StrV(UnknownCompany)
    THEN LET improvements == getattr(data, "key_improvements", ListV(<<>>))
         IN IF Truthy(improvements) /\ PyLen(improvements) > 0
            THEN IF improvements.t = "list" THEN StrV(improvements.v[Len(improvements.v)])
                 ELSE StrV(<<improvements.v[Len(improvements.v)]>>)
            ELSE company
    ELSE company

\* main.py 481-485
company_fallback(company, data) ==
    IF company = StrV(UnknownCompany)
    THEN LET improvements == getattr(data, "key_improvements", ListV(<<>>))
         IN IF Truthy(improvements) /\ PyLen(improvements) > 0
            THEN First(improvements)
            ELSE company
    ELSE company

Todo == <<"t", "o", "d", "o">>
Applied == <<"a", "p", "p", "l", "i", "e", "d">>
Interview == <<"i", "n", "t", "e", "r", "v", "i", "e", "w">>

\* models.py 8-11: the members of JobStatus
JobStatus == {StrV(Todo), StrV(Applied), StrV(Interview)}

\* a row of jobs can be loaded: the Enum column turns the stored string into
\* a member of JobStatus and raises LookupError for any other string
loadable(row) == row.status \in JobStatus

\* columns of the jobs table that reject NULL
NotNullColumns == {"resume_id", "company", "title", "original_jd", "tailored_resume", "match_score", "status"}

\* db.add(job); db.commit(): the row is written unless a NOT NULL column holds
\* None or a column holds a value the driver cannot bind (sqlite3 binds None,
\* int, float and str only)
db_accepts(row) ==
    /\ \A c \in DOMAIN row : row[c].t \in {"none", "str", "int", "inf"}
    /\ \A c \in NotNullColumns \cap DOMAIN row : row[c] # NoneV

\* the id SQLite gives a new row: one more than the largest in the table
NewId(table) ==
    IF DOMAIN table = {} THEN 1
    ELSE (CHOOSE i \in DOMAIN table : \A j \in DOMAIN table : j <= i) + 1

NoLocals == [read |-> FALSE]

\* the field reads of main.py 465-468 with None as the default of match_score
read_fields_score_none(data) ==
    [read |-> TRUE,
     company |-> getattr(data, "company_name", StrV(UnknownCompany)),
     title |-> getattr(data, "job_title", StrV(DefaultTitle)),
     match_score |-> getattr(data, "match_score", NoneV),
     extracted_jd |-> getattr(data, "extracted_job_description", StrV(<<>>))]

\* main.py 465-468
read_fields(data) ==
    [read |-> TRUE,
     company |-> getattr(data, "company_name", StrV(UnknownCompany)),
     title |-> getattr(data, "job_title", StrV(DefaultTitle)),
     match_score |-> getattr(data, "match_score", IntV(0)),
     extracted_jd |-> getattr(data, "extracted_job_description", StrV(<<>>))]

\* main.py 445-511 for the unwrapped payload data of request req: the response
\* status, the locals, and the row written (NoneV when nothing is stored)
analyze_tail(data, req) ==
    IF preview_raises(data)
    THEN [status |-> 500, loc |-> NoLocals, gate |-> "unreached", row |-> NoneV]
    ELSE LET loc == read_fields(data)
             g == jd_gate(loc.extracted_jd)
             row == [resume_id |-> IntV(req.resume_id),
                     url |-> req.url,
                     company |-> company_fallback(loc.company, data),
                     title |-> loc.title,
                     original_jd |-> getattr(data, "extracted_job_description", StrV(<<>>)),
                     tailored_resume |-> getattr(data, "tailored_resume_html", StrV(<<>>)),
                     cover_letter |-> getattr(data, "cover_letter_html", StrV(<<>>)),
                     match_score |-> loc.match_score,
                     status |-> StrV(Todo)]
         IN IF g = "error" THEN [status |-> 500, loc |-> loc, gate |-> g, row |-> NoneV]
            ELSE IF g = "http400" THEN [status |-> 400, loc |-> loc, gate |-> g, row |-> NoneV]
            ELSE IF ~db_accepts(row) THEN [status |-> 500, loc |-> loc, gate |-> g, row |-> NoneV]
            ELSE [status |-> 200, loc |-> loc, gate |-> g, row |-> row]

(***************************************************************************)
(* regenerate_job_content after the agent has answered (main.py 663-706).  *)
(***************************************************************************)
\* repr of a list of strings
RECURSIVE JoinRepr(_)
JoinRepr(l) ==
    IF l = <<>> THEN <<>>
    ELSE <<"'">> \o Head(l) \o <<"'">> \o (IF Len(l) > 1 THEN <<",", " ">> ELSE <<>>) \o JoinRepr(Tail(l))

\* str(v)
py_str(v) ==
    CASE v.t = "str" -> v.v
      [] v.t = "int" -> IntToStr(v.v)
      [] v.t = "inf" -> <<"i", "n", "f">>
      [] v.t = "list" -> <<"[">> \o JoinRepr(v.v) \o <<"]">>
      [] OTHER -> <<"N", "o", "n", "e">>

\* int(v) of an int, of a float infinity, of a list, or of a string (surrounding
\* whitespace ignored, decimal digits only): the number or the exception raised
py_int(v) ==
    CASE v.t = "int" -> [exc |-> "none", n |-> v.v]
      [] v.t = "inf" -> [exc |-> "OverflowError", n |-> 0]
      [] v.t = "str" ->
            LET d == strip(v.v)
            IN IF d # <<>> /\ \A i \in 1..Len(d) : IsDigit(d[i])
               THEN [exc |-> "none", n |-> DigitsToInt(d)]
               ELSE [exc |-> "ValueError", n |-> 0]
      [] OTHER -> [exc |-> "TypeError", n |-> 0]

\* "if data:" of main.py 665
TruthyObj(obj) ==
    CASE obj.kind = "none" -> FALSE
      [] obj.kind = "str" -> obj.s # <<>>
      [] OTHER -> TRUE

\* the guard of main.py 685-689 without the callable test
usable_any(v) == v # NoneV

\* main.py 685, 687, 689: the value is there and is not an invokable placeholder
usable(v) == v # NoneV /\ ~Callable(v)

\* regenerate_job_content reading the payload with the empty-string defaults
\* of analyze_job
regenerate_tail_blank_default(data, job) ==
    IF ~TruthyObj(data) THEN [status |-> 500, row |-> job]
    ELSE LET new_resume == getattr(data, "tailored_resume_html", StrV(<<>>))
             new_cover == getattr(data, "cover_letter_html", StrV(<<>>))
             new_score == getattr(data, "match_score", NoneV)
             conv == IF usable(new_score) THEN py_int(new_score) ELSE [exc |-> "skip", n |-> 0]
         IN IF conv.exc = "OverflowError" THEN [status |-> 500, row |-> job]
            ELSE [status |-> 200,
                  row |-> [job EXCEPT
                      !.tailored_resume = IF usable(new_resume) THEN StrV(py_str(new_resume)) ELSE @,
                      !.cover_letter = IF usable(new_cover) THEN StrV(py_str(new_cover)) ELSE @,
                      !.match_score = IF conv.exc = "none" THEN IntV(conv.n) ELSE @]]

\* main.py 663-706 for the unwrapped payload data and the job row loaded at the
\* start of the request: the response status and the row as it is to be committed
regenerate_tail(data, job) ==
    IF ~TruthyObj(data) THEN [status |-> 500, row |-> job]
    ELSE LET new_resume == getattr(data, "tailored_resume_html", NoneV)
             new_cover == getattr(data, "cover_letter_html", NoneV)
             new_score == getattr(data, "match_score", NoneV)
             conv == IF usable(new_score) THEN py_int(new_score) ELSE [exc |-> "skip", n |-> 0]
         IN IF conv.exc = "OverflowError" THEN [status |-> 500, row |-> job]
            ELSE [status |-> 200,
                  row |-> [job EXCEPT
                      !.tailored_resume = IF usable(new_resume) THEN StrV(py_str(new_resume)) ELSE @,
                      !.cover_letter = IF usable(new_cover) THEN StrV(py_str(new_cover)) ELSE @,
                      !.match_score = IF conv.exc = "none" THEN IntV(conv.n) ELSE @]]

(***************************************************************************)
(* Inputs of the pure-function specifications.                             *)
(***************************************************************************)
SlotNames == {SlotOrder[i] : i \in 1..Len(SlotOrder)}

\* a payload that tells which slot it came from
SlotPayload(name) ==
    IF name = "text" THEN StrObj(<<"t">>)
    ELSE DataObj("job_title" :> StrV(CASE name = "output" -> <<"o">> [] name = "data" -> <<"d">>
                                       [] name = "result" -> <<"r">> [] name = "content" -> <<"c">>
                                       [] OTHER -> <<"m">>))

Usages ==
    {[k |-> "absent"], [k |-> "raises"], [k |-> "notcallable"]}
    \cup {[k |-> "ok", tokens |-> [a \in S |-> 7]] : S \in SUBSET TokenAttrs}

SlotMaps ==
    UNION {{f \in [S -> {"none", "value"}] : TRUE} : S \in SUBSET SlotNames}

UnwrapInputs ==
    {ResultObj(u, [n \in DOMAIN f |-> IF f[n] = "none" THEN NoneObj ELSE SlotPayload(n)]) :
        u \in Usages, f \in SlotMaps}

\* a description text by construction: lead spaces, pre body characters, an
\* optional marker, post body characters, trail newlines
MarkText(mark) == CASE mark = "full" -> ErrorMarker [] mark = "near" -> NearMarker [] OTHER -> <<>>

MkText(d) ==
    Rep(" ", d.lead) \o Rep("x", d.pre) \o MarkText(d.mark) \o Rep("x", d.post) \o Rep("\n", d.trail)

TrimLen(d) == d.pre + Len(MarkText(d.mark)) + d.post

TrimLens == {0, 1, MinJDLength - 1, MinJDLength, MinJDLength + 1}

TextDescs ==
    {d \in [lead : 0..MaxPad, trail : 0..MaxPad, mark : {"none", "near", "full"},
            pre : 0..1, post : 0..(MinJDLength + 1)] : TrimLen(d) \in TrimLens}

Idle == [k |-> "idle"]

(***************************************************************************)
(* SpecUnwrap: extract_agent_data applied to every result shape.           *)
(***************************************************************************)
InitUnwrap ==
    /\ probe \in {[called |-> FALSE, result |-> r] : r \in UnwrapInputs}
    /\ gate = Idle
    /\ resumes = <<>>
    /\ jobs = <<>>
    /\ inflight = <<>>
    /\ last = Idle

Unwrap ==
    /\ probe # Idle
    /\ ~probe.called
    /\ probe' = [called |-> TRUE, result |-> probe.result, ret |-> extract_agent_data(probe.result)]
    /\ UNCHANGED <<resumes, jobs, inflight, last, gate>>

NextUnwrap == Unwrap

SpecUnwrap == InitUnwrap /\ [][NextUnwrap]_vars

(***************************************************************************)
(* SpecGate: the validity gate applied to description strings.             *)
(***************************************************************************)
InitGate ==
    /\ gate \in {[checked |-> FALSE, d |-> d, text |-> MkText(d)] : d \in TextDescs}
    /\ probe = Idle
    /\ resumes = <<>>
    /\ jobs = <<>>
    /\ inflight = <<>>
    /\ last = Idle

Gate ==
    /\ gate # Idle
    /\ ~gate.checked
    /\ gate' = [checked |-> TRUE, d |-> gate.d, text |-> gate.text, verdict |-> jd_gate(StrV(gate.text))]
    /\ UNCHANGED <<resumes, jobs, inflight, last, probe>>

NextGate == Gate

SpecGate == InitGate /\ [][NextGate]_vars

(***************************************************************************)
(* Agent answers of the request handlers.                                  *)
(***************************************************************************)
Text(lead, pre, mark, post, trail) ==
    MkText([lead |-> lead, pre |-> pre, mark |-> mark, post |-> post, trail |-> trail])

ValidText == Text(1, 0, "none", MinJDLength, 1)
LongerText == Text(0, 1, "near", MinJDLength, 0)
ShortText == Text(1, 0, "none", MinJDLength - 1, 1)
ErrorText == Text(0, 0, "full", MinJDLength, 0)

\* remove attribute a / set attribute a to v
Without(attrs, a) == [n \in DOMAIN attrs \ {a} |-> attrs[n]]
With(attrs, a, v) == [n \in DOMAIN attrs \cup {a} |-> IF n = a THEN v ELSE attrs[n]]

\* a well-formed answer of the tailoring agent
BaseAnalyze ==
    [company_name |-> StrV(Acme),
     job_title |-> StrV(Dev),
     match_score |-> IntV(85),
     extracted_job_description |-> StrV(ValidText),
     tailored_resume_html |-> StrV(<<"R">>),
     cover_letter_html |-> StrV(<<"C">>),
     key_improvements |-> ListV(<< <<"X">>, <<"Y">> >>)]

\* what else a field slot may hold
AnalyzeAlternatives ==
    [company_name |-> {NoneV, MockV, StrV(UnknownCompany)},
     job_title |-> {MockV},
     match_score |-> {NoneV, MockV, IntV(150)},
     extracted_job_description |->
        {NoneV, MockV, IntV(7), ListV(<<>>), StrV(<<>>), StrV(ShortText), StrV(ErrorText), StrV(LongerText)},
     tailored_resume_html |-> {MockV},
     cover_letter_html |-> {NoneV, MockV},
     key_improvements |-> {NoneV, MockV, ListV(<<>>), ListV(<< <<"Z">> >>)}]

\* the well-formed answer with field a absent or holding one of its alternatives
Deviations(base, alternatives, a) ==
    {Without(base, a)} \cup {With(base, a, v) : v \in alternatives[a]}

AnalyzeAttrs ==
    {BaseAnalyze}
    \cup UNION {Deviations(BaseAnalyze, AnalyzeAlternatives, a) : a \in DOMAIN BaseAnalyze}
    \cup UNION {Deviations(c, AnalyzeAlternatives, "key_improvements") :
                    c \in Deviations(BaseAnalyze, AnalyzeAlternatives, "company_name")}
    \cup {<<>>, [extracted_job_description |-> StrV(ValidText)]}

\* answers carrying the payload in the output slot, and the odd shapes: no slot
\* at all or only a slot holding None, with a usage accessor that raises; a text
\* slot holding None; the payload in the legacy data slot
AnalyzeResults ==
    {ResultObj([k |-> "absent"], [output |-> DataObj(a)]) : a \in AnalyzeAttrs}
    \cup {ResultObj([k |-> "raises"], <<>>),
          ResultObj([k |-> "raises"], [output |-> NoneObj]),
          ResultObj([k |-> "raises"], [text |-> NoneObj]),
          ResultObj([k |-> "absent"], [text |-> NoneObj]),
          ResultObj([k |-> "ok", tokens |-> <<>>], [output |-> NoneObj, data |-> DataObj(BaseAnalyze)])}

BaseRegenerate ==
    [tailored_resume_html |-> StrV(<<"S">>),
     cover_letter_html |-> StrV(<<"D">>),
     match_score |-> IntV(95)]

RegenerateAlternatives ==
    [tailored_resume_html |-> {NoneV, MockV},
     cover_letter_html |-> {NoneV, MockV, IntV(7)},
     match_score |-> {NoneV, MockV, InfV, IntV(150), ListV(<<>>), StrV(<<"a", "b", "c">>),
                     StrV(<<" ", "9", "5">>)}]

RegenerateAttrs ==
    {BaseRegenerate}
    \cup UNION {Deviations(BaseRegenerate, RegenerateAlternatives, a) : a \in DOMAIN BaseRegenerate}
    \cup {<<>>, [tailored_resume_html |-> MockV, cover_letter_html |-> MockV, match_score |-> MockV]}

RegenerateResults ==
    {ResultObj([k |-> "absent"], [output |-> DataObj(a)]) : a \in RegenerateAttrs}
    \cup {ResultObj([k |-> "raises"], <<>>),
          ResultObj([k |-> "absent"], [text |-> NoneObj])}

(***************************************************************************)
(* The analyze and regenerate requests over the store.  A request is       *)
(* suspended while it awaits the agent; everything else in a handler runs  *)
(* without interruption on the event loop.                                 *)
(***************************************************************************)
SampleResume == [name |-> <<"c", "v">>, content |-> <<"c", "v">>, is_selected |-> FALSE]

\* the requests that can be suspended at once
Slots == DOMAIN inflight

FreeSlot == CHOOSE i \in Slots : inflight[i] = Idle /\ \A j \in Slots : inflight[j] = Idle => i <= j

Pending(op) == Cardinality({i \in Slots : inflight[i] # Idle /\ inflight[i].op = op})

Urls == {StrV(<<"h", "t", "t", "p", ":", "/", "/", "j">>)}

Init ==
    /\ resumes = (1 :> SampleResume)
    /\ jobs = <<>>
    /\ inflight = [i \in 1..MaxInflight |-> Idle]
    /\ last = Idle
    /\ probe = Idle
    /\ gate = Idle

\* the response of a request, with what the handler worked on: the request,
\* the agent's answer, the handler's locals, the jobs and resumes tables as they
\* were before, and the id of the job addressed or created
Respond(op, status, req, result, out, id) ==
    last' = [op |-> op, status |-> status, req |-> req, result |-> result, out |-> out,
             before |-> jobs, stored |-> resumes, id |-> id]

\* analyze_job awaiting the agent without having looked the resume up
AnalyzeStart_unchecked(resume_id, url) ==
    /\ \E i \in Slots : inflight[i] = Idle
    /\ Cardinality(DOMAIN jobs) + Pending("analyze") < MaxJobs
    /\ inflight' = [inflight EXCEPT ![FreeSlot] = [op |-> "analyze", resume_id |-> resume_id, url |-> url]]
    /\ UNCHANGED <<resumes, jobs, last, probe, gate>>

\* main.py 420-443: look the resume up, then await the agent
AnalyzeStart(resume_id, url) ==
    /\ \E i \in Slots : inflight[i] = Idle
    /\ Cardinality(DOMAIN jobs) + Pending("analyze") < MaxJobs
    /\ IF resume_id \notin DOMAIN resumes
       THEN /\ Respond("analyze", 404, [resume_id |-> resume_id, url |-> url], Idle, Idle, 0)
            /\ UNCHANGED inflight
       ELSE /\ inflight' = [inflight EXCEPT ![FreeSlot] = [op |-> "analyze", resume_id |-> resume_id, url |-> url]]
            /\ UNCHANGED last
    /\ UNCHANGED <<resumes, jobs, probe, gate>>

\* main.py 513-518: the agent call raised
AnalyzeAgentFails(i) ==
    /\ inflight[i] # Idle
    /\ inflight[i].op = "analyze"
    /\ Respond("analyze", 500, inflight[i], Idle, Idle, 0)
    /\ inflight' = [inflight EXCEPT ![i] = Idle]
    /\ UNCHANGED <<resumes, jobs, probe, gate>>

\* main.py 445-518: the agent answered with result
AnalyzeFinish(i, result) ==
    /\ inflight[i] # Idle
    /\ inflight[i].op = "analyze"
    /\ LET ex == extract_agent_data(result)
           out == analyze_tail(ex.value, inflight[i])
           id == NewId(jobs)
       IN IF ex.exc
          THEN /\ Respond("analyze", 500, inflight[i], result, Idle, 0)
               /\ UNCHANGED jobs
          ELSE IF out.status = 200
          THEN /\ jobs' = (id :> out.row) @@ jobs
               /\ Respond("analyze", 200, inflight[i], result, out @@ [data |-> ex.value], id)
          ELSE /\ Respond("analyze", out.status, inflight[i], result, out @@ [data |-> ex.value], 0)
               /\ UNCHANGED jobs
    /\ inflight' = [inflight EXCEPT ![i] = Idle]
    /\ UNCHANGED <<resumes, probe, gate>>

\* main.py 635-662: look the job and its resume up, then await the agent.  The
\* suspended request keeps the row it loaded; gone records whether delete_job
\* has removed that row since (history only, no handler reads it).
RegenerateStart(job_id) ==
    /\ \E i \in Slots : inflight[i] = Idle
    /\ IF job_id \notin DOMAIN jobs
       THEN /\ Respond("regenerate", 404, [job_id |-> job_id], Idle, Idle, job_id)
            /\ UNCHANGED inflight
       ELSE IF ~loadable(jobs[job_id])
       THEN /\ Respond("regenerate", 500, [job_id |-> job_id], Idle, Idle, job_id)
            /\ UNCHANGED inflight
       ELSE IF jobs[job_id].resume_id.v \notin DOMAIN resumes
       THEN /\ Respond("regenerate", 404, [job_id |-> job_id], Idle, Idle, job_id)
            /\ UNCHANGED inflight
       ELSE /\ inflight' = [inflight EXCEPT ![FreeSlot] =
                                [op |-> "regenerate", job_id |-> job_id, job |-> jobs[job_id],
                                 gone |-> FALSE]]
            /\ UNCHANGED last
    /\ UNCHANGED <<resumes, jobs, probe, gate>>

\* regenerate_job_content swallowing the agent's exception and answering with
\* the stored values
RegenerateAgentFails_swallowed(i) ==
    /\ inflight[i] # Idle
    /\ inflight[i].op = "regenerate"
    /\ Respond("regenerate", 200, inflight[i], Idle, Idle, inflight[i].job_id)
    /\ inflight' = [inflight EXCEPT ![i] = Idle]
    /\ UNCHANGED <<resumes, jobs, probe, gate>>

\* main.py 703-706: the agent call raised
RegenerateAgentFails(i) ==
    /\ inflight[i] # Idle
    /\ inflight[i].op = "regenerate"
    /\ Respond("regenerate", 500, inflight[i], Idle, Idle, inflight[i].job_id)
    /\ inflight' = [inflight EXCEPT ![i] = Idle]
    /\ UNCHANGED <<resumes, jobs, probe, gate>>

\* main.py 663-706: the agent answered with result.  The commit writes the
\* columns whose value differs from the one loaded at the start of the request;
\* it fails when the row is gone.
RegenerateFinish(i, result) ==
    /\ inflight[i] # Idle
    /\ inflight[i].op = "regenerate"
    /\ LET req == inflight[i]
           ex == extract_agent_data(result)
           out == regenerate_tail(ex.value, req.job)
       IN IF ex.exc \/ out.status # 200 \/ req.job_id \notin DOMAIN jobs
          THEN /\ Respond("regenerate", 500, req, result, [data |-> ex.value], req.job_id)
               /\ UNCHANGED jobs
          ELSE /\ jobs' = [jobs EXCEPT ![req.job_id] =
                              [c \in DOMAIN @ |-> IF out.row[c] # req.job[c] THEN out.row[c] ELSE @[c]]]
               /\ Respond("regenerate", 200, req, result, [data |-> ex.value], req.job_id)
    /\ inflight' = [inflight EXCEPT ![i] = Idle]
    /\ UNCHANGED <<resumes, probe, gate>>

\* Spec: analyze requests, over every agent answer of AnalyzeResults
Next ==
    \/ \E resume_id \in 1..MaxResumeId, url \in Urls \cup {NoneV} : AnalyzeStart(resume_id, url)
    \/ \E i \in Slots : AnalyzeAgentFails(i)
    \/ \E i \in Slots, result \in AnalyzeResults : AnalyzeFinish(i, result)

Spec == Init /\ [][Next]_vars

\* SpecRegenerate: regenerate requests, over every agent answer of
\* RegenerateResults, on jobs stored by analyze requests that the agent answered
\* well
NextRegenerate ==
    \/ \E resume_id \in 1..MaxResumeId, url \in Urls : AnalyzeStart(resume_id, url)
    \/ \E i \in Slots : AnalyzeFinish(i, ResultObj([k |-> "absent"], [output |-> DataObj(BaseAnalyze)]))
    \/ \E job_id \in 1..MaxJobs + 1 : RegenerateStart(job_id)
    \/ \E i \in Slots : RegenerateAgentFails(i)
    \/ \E i \in Slots, result \in RegenerateResults : RegenerateFinish(i, result)

SpecRegenerate == Init /\ [][NextRegenerate]_vars

(***************************************************************************)
(* The text tools of tools.py.                                             *)
(***************************************************************************)
MinPdfLength == 50
MinScrapeLength == 100
MinResumeLength == 50

\* "\n".join(parts)
RECURSIVE JoinLines(_)
JoinLines(parts) ==
    IF parts = <<>> THEN <<>>
    ELSE IF Len(parts) = 1 THEN parts[1]
    ELSE parts[1] \o <<"\n">> \o JoinLines(Tail(parts))

\* s.split("\n")
RECURSIVE SplitLines(_)
SplitLines(s) ==
    IF \A i \in 1..Len(s) : s[i] # "\n" THEN <<s>>
    ELSE LET k == CHOOSE i \in 1..Len(s) : s[i] = "\n" /\ \A j \in 1..(i - 1) : s[j] # "\n"
         IN <<SubSeq(s, 1, k - 1)>> \o SplitLines(SubSeq(s, k + 1, Len(s)))

\* s.replace(sub, "")
RECURSIVE Remove(_, _)
Remove(s, sub) ==
    IF Len(s) < Len(sub) THEN s
    ELSE IF SubSeq(s, 1, Len(sub)) = sub THEN Remove(SubSeq(s, Len(sub) + 1, Len(s)), sub)
    ELSE <<Head(s)>> \o Remove(Tail(s), sub)

\* s.endswith(suf)
EndsWith(s, suf) == Len(s) >= Len(suf) /\ SubSeq(s, Len(s) - Len(suf) + 1, Len(s)) = suf

\* a message of the tools: the marker "Error:", then the sentence, of which a
\* tag and the length are kept (n characters in all)
ErrorMessage(tag, n) == ErrorMarker \o <<" ">> \o tag \o Rep(".", n - Len(ErrorMarker) - 1 - Len(tag))

PdfInsufficient == ErrorMessage(<<"p", "d", "f", "-", "t", "e", "x", "t">>, 193)
PdfFailed == ErrorMessage(<<"p", "d", "f", "-", "i", "o">>, 53)
ScrapeInvalidUrl == ErrorMessage(<<"u", "r", "l">>, 79)
ScrapeTooShort == ErrorMessage(<<"s", "h", "o", "r", "t">>, 85)
ScrapeHttpStatus == ErrorMessage(<<"h", "t", "t", "p">>, 54)
ScrapeNoConnection == ErrorMessage(<<"c", "o", "n", "n", "e", "c", "t">>, 87)
ScrapeUnexpected == ErrorMessage(<<"o", "t", "h", "e", "r">>, 56)

\* what a library call comes to: it raises, or it hands back text
Raises == [k |-> "raises"]
Gives(text) == [k |-> "ok", text |-> text]

\* extract_text_from_pdf asking PyMuPDF whatever MarkItDown gave
extract_text_from_pdf_both(io, md, fz) ==
    IF io = "raises" THEN PdfFailed
    ELSE LET first == IF md.k = "ok" THEN strip(md.text) ELSE <<>>
             fitz_content == IF fz.k = "ok" THEN strip(JoinLines(fz.text)) ELSE <<>>
             content == IF fz.k = "ok" /\ Len(fitz_content) > Len(first) THEN fitz_content ELSE first
         IN IF content = <<>> \/ Len(strip(content)) < MinPdfLength THEN PdfInsufficient ELSE content

\* tools.py 14-74.  io: writing the temporary file works ("ok") or raises;
\* md: what MarkItDown's convert comes to; fz: what PyMuPDF comes to, its text
\* being the list of the pages' texts
extract_text_from_pdf(io, md, fz) ==
    IF io = "raises" THEN PdfFailed
    ELSE LET first == IF md.k = "ok" THEN strip(md.text) ELSE <<>>
             fitz_content == IF fz.k = "ok" THEN strip(JoinLines(fz.text)) ELSE <<>>
             content == IF first = <<>> \/ Len(first) < MinPdfLength
                        THEN IF fz.k = "ok" /\ Len(fitz_content) > Len(first) THEN fitz_content ELSE first
                        ELSE first
         IN IF content = <<>> \/ Len(strip(content)) < MinPdfLength THEN PdfInsufficient ELSE content

Http == <<"h", "t", "t", "p", ":", "/", "/">>
Https == <<"h", "t", "t", "p", "s", ":", "/", "/">>

\* tools.py 81: the URL has a scheme the scraper accepts
url_ok(url) == StartsWith(url, Http) \/ StartsWith(url, Https)

\* scrape_job_description measuring the page before it is trimmed
scrape_job_description_untrimmed(url, net) ==
    IF ~url_ok(url) THEN ScrapeInvalidUrl
    ELSE CASE net.k = "status" -> ScrapeHttpStatus
           [] net.k = "connect" -> ScrapeNoConnection
           [] net.k = "raises" -> ScrapeUnexpected
           [] OTHER -> IF net.text = <<>> \/ Len(net.text) < MinScrapeLength
                       THEN ScrapeTooShort ELSE strip(net.text)

\* tools.py 77-109.  net: what the GET comes to: an HTTP status error, a
\* connection error, some other exception, or the text of the page
scrape_job_description(url, net) ==
    IF ~url_ok(url) THEN ScrapeInvalidUrl
    ELSE CASE net.k = "status" -> ScrapeHttpStatus
           [] net.k = "connect" -> ScrapeNoConnection
           [] net.k = "raises" -> ScrapeUnexpected
           [] OTHER -> LET content == strip(net.text)
                       IN IF content = <<>> \/ Len(content) < MinScrapeLength THEN ScrapeTooShort ELSE content

(***************************************************************************)
(* The resume requests (main.py 151-354).  upload_resume is suspended      *)
(* while it reads the file, import_resume_from_url while the page is       *)
(* fetched, add_resume_manual while the cleaning agent runs.               *)
(***************************************************************************)
PdfSuffix == <<".", "p", "d", "f">>
ImportedFrom == <<"I", "m", "p", "o", "r", "t", "e", "d", " ", "f", "r", "o", "m", " ">>
PastedResume == <<"P", "a", "s", "t", "e", "d", " ", "R", "e", "s", "u", "m", "e">>
Dots == <<".", ".", ".">>
\* the code fence of Markdown, three grave accents, each written "^" here
Fence == <<"^", "^", "^">>
FenceMarkdown == Fence \o <<"m", "a", "r", "k", "d", "o", "w", "n">>

\* s[:n]
Prefix(s, n) == SubSeq(s, 1, IF Len(s) < n THEN Len(s) ELSE n)

\* the gate with the marker test left out
intake_gate_no_marker(content) ==
    IF strip(content) = <<>> \/ Len(strip(content)) < MinResumeLength THEN "http400"
    ELSE "ok"

\* main.py 166-173 and 201-205: the tool reported an error, or the text is too
\* short once trimmed
intake_gate(content) ==
    IF StartsWith(content, ErrorMarker) THEN "http400"
    ELSE IF strip(content) = <<>> \/ Len(strip(content)) < MinResumeLength THEN "http400"
    ELSE "ok"

\* main.py 232-233
manual_gate(content) ==
    IF strip(content) = <<>> \/ Len(strip(content)) < MinResumeLength THEN "http400" ELSE "ok"

\* the new row added without the others being deselected
store_selected_keep(table, name, content) ==
    (NewId(table) :> [name |-> name, content |-> content, is_selected |-> TRUE]) @@ table

\* main.py 175-182, 207-216, 260-271: every row is deselected, then the new
\* row is added as the selected one, in one commit
store_selected(table, name, content) ==
    (NewId(table) :> [name |-> name, content |-> content, is_selected |-> TRUE])
        @@ [id \in DOMAIN table |-> [table[id] EXCEPT !.is_selected = FALSE]]

\* main.py 243-252: trim, then drop an opening and a closing code fence
strip_fences(text) ==
    LET cleaned == strip(text)
    IN IF StartsWith(cleaned, FenceMarkdown) \/ StartsWith(cleaned, Fence)
       THEN LET lines == SplitLines(cleaned)
                opened == IF StartsWith(lines[1], Fence) THEN Tail(lines) ELSE lines
                closed == IF opened # <<>> /\ strip(opened[Len(opened)]) = Fence
                          THEN SubSeq(opened, 1, Len(opened) - 1) ELSE opened
            IN JoinLines(closed)
       ELSE cleaned

\* main.py 236-258: the content to store for the cleaning agent's answer; a
\* payload that is not a string makes .strip() raise, and the raw content is kept
cleaned_content(result, raw) ==
    LET ex == extract_agent_data(result)
    IN IF ex.exc \/ ex.value.kind # "str" THEN raw ELSE strip_fences(ex.value.s)

\* the response of a resume request, with the request (and what the awaited
\* call came to: the outcomes of the PDF libraries, of the GET, the cleaning
\* agent's answer or Idle when it raised), the text the handler judged and
\* the resumes table as it was before
RespondResume(op, status, req, content, id) ==
    last' = [op |-> op, status |-> status, req |-> req, content |-> content, before |-> resumes, id |-> id]

IntakeOps == {"upload", "import", "manual"}

PendingIntake == Cardinality({i \in Slots : inflight[i] # Idle /\ inflight[i].op \in IntakeOps})

\* a slot is free and the table has room for the resumes of the requests under way
IntakeRoom ==
    /\ \E i \in Slots : inflight[i] = Idle
    /\ Cardinality(DOMAIN resumes) + PendingIntake < MaxResumeId

\* main.py 152-161: the file name is checked, then the file is read
UploadStart(req) ==
    /\ IntakeRoom
    /\ IF ~EndsWith(req.filename, PdfSuffix)
       THEN /\ RespondResume("upload", 400, req, <<>>, 0)
            /\ UNCHANGED inflight
       ELSE /\ inflight' = [inflight EXCEPT ![FreeSlot] = [op |-> "upload", req |-> req]]
            /\ UNCHANGED last
    /\ UNCHANGED <<resumes, jobs, probe, gate>>

\* main.py 163-190: the file is read; extract, judge, store
UploadFinish(i, io, md, fz) ==
    /\ inflight[i] # Idle
    /\ inflight[i].op = "upload"
    /\ LET req == inflight[i].req
           content == extract_text_from_pdf(io, md, fz)
           name == IF Truthy(req.name) THEN req.name.v ELSE Remove(req.filename, PdfSuffix)
           seen == req @@ [io |-> io, md |-> md, fz |-> fz]
       IN IF intake_gate(content) = "http400"
          THEN /\ RespondResume("upload", 400, seen, content, 0)
               /\ UNCHANGED resumes
          ELSE /\ resumes' = store_selected(resumes, name, content)
               /\ RespondResume("upload", 200, seen, content, NewId(resumes))
    /\ inflight' = [inflight EXCEPT ![i] = Idle]
    /\ UNCHANGED <<jobs, probe, gate>>

\* main.py 194-202: a URL the scraper refuses is answered without a fetch
ImportStart(req) ==
    /\ IntakeRoom
    /\ IF ~url_ok(req.url)
       THEN /\ RespondResume("import", 400, req, scrape_job_description(req.url, Raises), 0)
            /\ UNCHANGED inflight
       ELSE /\ inflight' = [inflight EXCEPT ![FreeSlot] = [op |-> "import", req |-> req]]
            /\ UNCHANGED last
    /\ UNCHANGED <<resumes, jobs, probe, gate>>

\* main.py 199-224: the fetch is over; judge, store
ImportFinish(i, net) ==
    /\ inflight[i] # Idle
    /\ inflight[i].op = "import"
    /\ LET req == inflight[i].req
           content == scrape_job_description(req.url, net)
           name == IF Truthy(req.name) THEN req.name.v ELSE ImportedFrom \o Prefix(req.url, 30) \o Dots
           seen == req @@ [net |-> net]
       IN IF intake_gate(content) = "http400"
          THEN /\ RespondResume("import", 400, seen, content, 0)
               /\ UNCHANGED resumes
          ELSE /\ resumes' = store_selected(resumes, name, content)
               /\ RespondResume("import", 200, seen, content, NewId(resumes))
    /\ inflight' = [inflight EXCEPT ![i] = Idle]
    /\ UNCHANGED <<jobs, probe, gate>>

\* main.py 228-238: the pasted text is judged, then the cleaning agent is awaited
ManualStart(req) ==
    /\ IntakeRoom
    /\ IF manual_gate(req.content) = "http400"
       THEN /\ RespondResume("manual", 400, req, req.content, 0)
            /\ UNCHANGED inflight
       ELSE /\ inflight' = [inflight EXCEPT ![FreeSlot] = [op |-> "manual", req |-> req]]
            /\ UNCHANGED last
    /\ UNCHANGED <<resumes, jobs, probe, gate>>

\* the name of a pasted resume (the time stamp of the default name left out)
manual_name(req) == IF Truthy(req.name) THEN req.name.v ELSE PastedResume

\* add_resume_manual without the try around the cleaning: the failure of the
\* agent fails the request
ManualAgentFails_uncaught(i) ==
    /\ inflight[i] # Idle
    /\ inflight[i].op = "manual"
    /\ LET req == inflight[i].req
       IN /\ RespondResume("manual", 500, req @@ [result |-> Idle], req.content, 0)
          /\ UNCHANGED resumes
    /\ inflight' = [inflight EXCEPT ![i] = Idle]
    /\ UNCHANGED <<jobs, probe, gate>>

\* main.py 254-279: the cleaning agent raised; the raw text is stored
ManualAgentFails(i) ==
    /\ inflight[i] # Idle
    /\ inflight[i].op = "manual"
    /\ LET req == inflight[i].req
       IN /\ resumes' = store_selected(resumes, manual_name(req), req.content)
          /\ RespondResume("manual", 200, req @@ [result |-> Idle], req.content, NewId(resumes))
    /\ inflight' = [inflight EXCEPT ![i] = Idle]
    /\ UNCHANGED <<jobs, probe, gate>>

\* main.py 239-279: the cleaning agent answered with result
ManualFinish(i, result) ==
    /\ inflight[i] # Idle
    /\ inflight[i].op = "manual"
    /\ LET req == inflight[i].req
           content == cleaned_content(result, req.content)
       IN /\ resumes' = store_selected(resumes, manual_name(req), content)
          /\ RespondResume("manual", 200, req @@ [result |-> result], content, NewId(resumes))
    /\ inflight' = [inflight EXCEPT ![i] = Idle]
    /\ UNCHANGED <<jobs, probe, gate>>

\* update_resume setting the flag of its target only
UpdateResume_target_only(resume_id, req) ==
    /\ IF resume_id \notin DOMAIN resumes
       THEN /\ RespondResume("update_resume", 404, req, <<>>, resume_id)
            /\ UNCHANGED resumes
       ELSE /\ resumes' = [resumes EXCEPT ![resume_id] =
                              [name |-> req.name, content |-> req.content, is_selected |-> req.is_selected]]
            /\ RespondResume("update_resume", 200, req, req.content, resume_id)
    /\ UNCHANGED <<jobs, inflight, probe, gate>>

\* update_resume deselecting every row whenever its target is not selected,
\* whatever flag the request carries
UpdateResume_any_flag(resume_id, req) ==
    /\ IF resume_id \notin DOMAIN resumes
       THEN /\ RespondResume("update_resume", 404, req, <<>>, resume_id)
            /\ UNCHANGED resumes
       ELSE /\ resumes' =
                 [id \in DOMAIN resumes |->
                     IF id = resume_id
                     THEN [name |-> req.name, content |-> req.content, is_selected |-> req.is_selected]
                     ELSE IF ~resumes[resume_id].is_selected
                          THEN [resumes[id] EXCEPT !.is_selected = FALSE]
                          ELSE resumes[id]]
            /\ RespondResume("update_resume", 200, req, req.content, resume_id)
    /\ UNCHANGED <<jobs, inflight, probe, gate>>

\* main.py 295-325
UpdateResume(resume_id, req) ==
    /\ IF resume_id \notin DOMAIN resumes
       THEN /\ RespondResume("update_resume", 404, req, <<>>, resume_id)
            /\ UNCHANGED resumes
       ELSE /\ resumes' =
                 [id \in DOMAIN resumes |->
                     IF id = resume_id
                     THEN [name |-> req.name, content |-> req.content, is_selected |-> req.is_selected]
                     ELSE IF req.is_selected /\ ~resumes[resume_id].is_selected
                          THEN [resumes[id] EXCEPT !.is_selected = FALSE]
                          ELSE resumes[id]]
            /\ RespondResume("update_resume", 200, req, req.content, resume_id)
    /\ UNCHANGED <<jobs, inflight, probe, gate>>

\* main.py 328-354
SetSelectedResume(resume_id) ==
    /\ IF resume_id \notin DOMAIN resumes
       THEN /\ RespondResume("select", 404, Idle, <<>>, resume_id)
            /\ UNCHANGED resumes
       ELSE /\ resumes' = [id \in DOMAIN resumes |-> [resumes[id] EXCEPT !.is_selected = (id = resume_id)]]
            /\ RespondResume("select", 200, Idle, <<>>, resume_id)
    /\ UNCHANGED <<jobs, inflight, probe, gate>>

(***************************************************************************)
(* SpecIntake: the resume requests, from an empty store.                   *)
(***************************************************************************)
Cv == <<"c", "v">>
CvPdf == Cv \o PdfSuffix
CvTxt == Cv \o <<".", "t", "x", "t">>
Clean == <<"#", " ", "J">>
Fenced == FenceMarkdown \o <<"\n">> \o Clean \o <<"\n">> \o Fence

UploadRequests ==
    {[filename |-> CvPdf, name |-> NoneV],
     [filename |-> CvTxt, name |-> StrV(Cv)]}

\* outcomes of the temporary file, of MarkItDown and of PyMuPDF
PdfOutcomes ==
    {[io |-> "raises", md |-> Raises, fz |-> Raises],
     [io |-> "ok", md |-> Raises, fz |-> Raises],
     [io |-> "ok", md |-> Gives(Text(1, 0, "none", MinPdfLength, 1)), fz |-> Raises],
     [io |-> "ok", md |-> Gives(Rep("x", MinPdfLength - 1)), fz |-> Raises],
     [io |-> "ok", md |-> Gives(Rep("x", MinPdfLength - 1)), fz |-> Gives(<< <<>>, Rep("x", MinPdfLength) >>)],
     [io |-> "ok", md |-> Raises, fz |-> Gives(<< Rep("x", MinPdfLength - 1) >>)],
     [io |-> "ok", md |-> Gives(ErrorText), fz |-> Raises],
     [io |-> "ok", md |-> Gives(Rep("x", MinPdfLength)), fz |-> Gives(<< Rep("y", MinPdfLength + 1) >>)],
     [io |-> "ok", md |-> Gives(Rep("x", MinPdfLength - 1)), fz |-> Gives(<< Rep("y", MinPdfLength - 1) >>)]}

ImportRequests ==
    {[url |-> Https \o <<"j">>, name |-> NoneV],
     [url |-> <<"f", "t", "p", ":", "/", "/", "j">>, name |-> StrV(Cv)]}

\* outcomes of the GET
NetOutcomes ==
    {[k |-> "status"], [k |-> "connect"], Raises,
     Gives(Text(1, 0, "none", MinScrapeLength, 1)),
     Gives(Rep("x", MinScrapeLength - 1)),
     Gives(Text(1, 0, "none", MinScrapeLength - 1, 1)),
     Gives(ErrorMarker \o Rep("x", MinScrapeLength))}

ManualRequests ==
    {[content |-> ValidText, name |-> StrV(Cv)],
     [content |-> ShortText, name |-> NoneV]}

\* answers of the cleaning agent: Markdown, Markdown in a code fence, an
\* object that is no string, and a text slot holding None
CleanResults ==
    {ResultObj([k |-> "absent"], [output |-> StrObj(Clean)]),
     ResultObj([k |-> "absent"], [output |-> StrObj(Fenced)]),
     ResultObj([k |-> "absent"], [output |-> DataObj(<<>>)]),
     ResultObj([k |-> "raises"], [text |-> NoneObj])}

\* update requests for resume id: the stored name and content sent back with
\* either value of the selected flag
UpdateRequests(id) ==
    {[name |-> IF id \in DOMAIN resumes THEN resumes[id].name ELSE Cv,
      content |-> IF id \in DOMAIN resumes THEN resumes[id].content ELSE Cv,
      is_selected |-> b] : b \in BOOLEAN}

InitIntake ==
    /\ resumes = <<>>
    /\ jobs = <<>>
    /\ inflight = [i \in 1..MaxInflight |-> Idle]
    /\ last = Idle
    /\ probe = Idle
    /\ gate = Idle

NextIntake ==
    \/ \E req \in UploadRequests : UploadStart(req)
    \/ \E i \in Slots, o \in PdfOutcomes : UploadFinish(i, o.io, o.md, o.fz)
    \/ \E req \in ImportRequests : ImportStart(req)
    \/ \E i \in Slots, net \in NetOutcomes : ImportFinish(i, net)
    \/ \E req \in ManualRequests : ManualStart(req)
    \/ \E i \in Slots : ManualAgentFails(i)
    \/ \E i \in Slots, result \in CleanResults : ManualFinish(i, result)
    \/ \E id \in 1..MaxResumeId : \E req \in UpdateRequests(id) : UpdateResume(id, req)
    \/ \E id \in 1..MaxResumeId : SetSelectedResume(id)

SpecIntake == InitIntake /\ [][NextIntake]_vars

(***************************************************************************)
(* The job requests (main.py 528-632).  None of them awaits anything.      *)
(***************************************************************************)
\* the suspended requests once the row job_id is deleted: the regenerations
\* that loaded it have lost it
MarkGone(job_id) ==
    [i \in Slots |->
        IF inflight[i] # Idle /\ inflight[i].op = "regenerate" /\ inflight[i].job_id = job_id
        THEN [inflight[i] EXCEPT !.gone = TRUE]
        ELSE inflight[i]]

BoolV(b) == [t |-> "bool", v |-> b]

\* main.py 550-557: the status of the job after the request
new_status(status, req) ==
    IF req.status # NoneV THEN req.status
    ELSE IF req.applied # NoneV
    THEN IF req.applied.v THEN StrV(Applied)
         ELSE IF status = StrV(Applied) THEN StrV(Todo) ELSE status
    ELSE status

\* main.py 528-534
GetJob(job_id) ==
    /\ Respond("get", IF job_id \notin DOMAIN jobs THEN 404
                      ELSE IF ~loadable(jobs[job_id]) THEN 500 ELSE 200,
               [job_id |-> job_id], Idle, Idle, job_id)
    /\ UNCHANGED <<resumes, jobs, inflight, probe, gate>>

\* main.py 544-567: the row is loaded, changed and committed, then read back
UpdateJob(job_id, req) ==
    /\ IF job_id \notin DOMAIN jobs
       THEN /\ Respond("update", 404, req, Idle, Idle, job_id)
            /\ UNCHANGED jobs
       ELSE IF ~loadable(jobs[job_id])
       THEN /\ Respond("update", 500, req, Idle, Idle, job_id)
            /\ UNCHANGED jobs
       ELSE LET row == [jobs[job_id] EXCEPT
                           !.status = new_status(@, req),
                           !.tailored_resume = IF req.tailored_resume # NoneV THEN req.tailored_resume ELSE @,
                           !.cover_letter = IF req.cover_letter # NoneV THEN req.cover_letter ELSE @]
            IN /\ jobs' = [jobs EXCEPT ![job_id] = row]
               /\ Respond("update", IF loadable(row) THEN 200 ELSE 500, req, Idle, Idle, job_id)
    /\ UNCHANGED <<resumes, inflight, probe, gate>>

\* main.py 570-619: rendered says whether WeasyPrint produced the document
GeneratePdf(job_id, pdf_type, rendered) ==
    /\ LET html_content == IF pdf_type = "cover" THEN jobs[job_id].cover_letter
                           ELSE jobs[job_id].tailored_resume
       IN Respond("pdf", IF job_id \notin DOMAIN jobs THEN 404
                         ELSE IF ~loadable(jobs[job_id]) THEN 500
                         ELSE IF ~Truthy(html_content) THEN 400
                         ELSE IF rendered THEN 200 ELSE 500,
                  [job_id |-> job_id, pdf_type |-> pdf_type], Idle, Idle, job_id)
    /\ UNCHANGED <<resumes, jobs, inflight, probe, gate>>

\* delete_job answering 200 for an id that is not stored
DeleteJob_missing_ok(job_id) ==
    /\ IF job_id \notin DOMAIN jobs
       THEN /\ Respond("delete", 200, [job_id |-> job_id], Idle, Idle, job_id)
            /\ UNCHANGED <<jobs, inflight>>
       ELSE IF ~loadable(jobs[job_id])
       THEN /\ Respond("delete", 500, [job_id |-> job_id], Idle, Idle, job_id)
            /\ UNCHANGED <<jobs, inflight>>
       ELSE /\ jobs' = [id \in DOMAIN jobs \ {job_id} |-> jobs[id]]
            /\ inflight' = MarkGone(job_id)
            /\ Respond("delete", 200, [job_id |-> job_id], Idle, Idle, job_id)
    /\ UNCHANGED <<resumes, probe, gate>>

\* delete_job deleting without the filter on the id
DeleteJob_unfiltered(job_id) ==
    /\ IF job_id \notin DOMAIN jobs
       THEN /\ Respond("delete", 404, [job_id |-> job_id], Idle, Idle, job_id)
            /\ UNCHANGED <<jobs, inflight>>
       ELSE IF ~loadable(jobs[job_id])
       THEN /\ Respond("delete", 500, [job_id |-> job_id], Idle, Idle, job_id)
            /\ UNCHANGED <<jobs, inflight>>
       ELSE /\ jobs' = <<>>
            /\ inflight' = MarkGone(job_id)
            /\ Respond("delete", 200, [job_id |-> job_id], Idle, Idle, job_id)
    /\ UNCHANGED <<resumes, probe, gate>>

\* main.py 622-632
DeleteJob(job_id) ==
    /\ IF job_id \notin DOMAIN jobs
       THEN /\ Respond("delete", 404, [job_id |-> job_id], Idle, Idle, job_id)
            /\ UNCHANGED <<jobs, inflight>>
       ELSE IF ~loadable(jobs[job_id])
       THEN /\ Respond("delete", 500, [job_id |-> job_id], Idle, Idle, job_id)
            /\ UNCHANGED <<jobs, inflight>>
       ELSE /\ jobs' = [id \in DOMAIN jobs \ {job_id} |-> jobs[id]]
            /\ inflight' = MarkGone(job_id)
            /\ Respond("delete", 200, [job_id |-> job_id], Idle, Idle, job_id)
    /\ UNCHANGED <<resumes, probe, gate>>

(***************************************************************************)
(* SpecJobs: the job requests, and regenerate requests for ids that are   *)
(* not stored, on a store of two jobs that analyze_job created; analyze    *)
(* requests once there is room.                                            *)
(***************************************************************************)
BaseResult == ResultObj([k |-> "absent"], [output |-> DataObj(BaseAnalyze)])

\* the row analyze_job stores for the well-formed answer
BaseRow(url) == analyze_tail(DataObj(BaseAnalyze), [resume_id |-> 1, url |-> url]).row

Bogus == <<"b", "o", "g", "u", "s">>

\* update requests: every status (a member of JobStatus, some other string,
\* none) with every applied flag, and one request that replaces the two texts
UpdateJobRequests ==
    {[status |-> s, applied |-> a, tailored_resume |-> NoneV, cover_letter |-> NoneV] :
        s \in JobStatus \cup {StrV(Bogus), NoneV}, a \in {NoneV, BoolV(TRUE), BoolV(FALSE)}}
    \cup {[status |-> NoneV, applied |-> NoneV,
           tailored_resume |-> BaseRegenerate.tailored_resume_html, cover_letter |-> StrV(<<>>)]}

\* the ids requests name: those of the two jobs and one never given out
JobIds == 1..(MaxJobs + 2)

InitJobs ==
    /\ resumes = (1 :> SampleResume)
    /\ jobs = (1 :> BaseRow(CHOOSE u \in Urls : TRUE)) @@ (2 :> BaseRow(NoneV))
    /\ inflight = [i \in 1..MaxInflight |-> Idle]
    /\ last = Idle
    /\ probe = Idle
    /\ gate = Idle

NextJobs ==
    \/ \E job_id \in JobIds : GetJob(job_id)
    \/ \E job_id \in JobIds, req \in UpdateJobRequests : UpdateJob(job_id, req)
    \/ \E job_id \in JobIds, pdf_type \in {"resume", "cover"}, rendered \in BOOLEAN :
            GeneratePdf(job_id, pdf_type, rendered)
    \/ \E job_id \in JobIds : DeleteJob(job_id)
    \/ \E job_id \in JobIds \ DOMAIN jobs : RegenerateStart(job_id)
    \/ \E resume_id \in 1..MaxResumeId, url \in Urls : AnalyzeStart(resume_id, url)
    \/ \E i \in Slots : AnalyzeFinish(i, BaseResult)

SpecJobs == InitJobs /\ [][NextJobs]_vars

(***************************************************************************)
(* SpecRace: regenerations of a stored job with delete_job and analyze_job *)
(* running while they are suspended.  One request more can be suspended    *)
(* than elsewhere, so that an analyze request fits beside a regeneration.  *)
(***************************************************************************)
\* the agent's answers: new texts and score, and a payload without fields
RaceResults ==
    {ResultObj([k |-> "absent"], [output |-> DataObj(BaseRegenerate)]),
     ResultObj([k |-> "absent"], [output |-> DataObj(<<>>)])}

InitRace ==
    /\ resumes = (1 :> SampleResume)
    /\ jobs = (1 :> BaseRow(NoneV))
    /\ inflight = [i \in 1..(MaxInflight + 1) |-> Idle]
    /\ last = Idle
    /\ probe = Idle
    /\ gate = Idle

NextRace ==
    \/ \E job_id \in 1..MaxJobs : RegenerateStart(job_id)
    \/ \E i \in Slots : RegenerateAgentFails(i)
    \/ \E i \in Slots, result \in RaceResults : RegenerateFinish(i, result)
    \/ \E job_id \in 1..MaxJobs : DeleteJob(job_id)
    \/ \E url \in Urls : AnalyzeStart(1, url)
    \/ \E i \in Slots : AnalyzeAgentFails(i)
    \/ \E i \in Slots : AnalyzeFinish(i, BaseResult)

SpecRace == InitRace /\ [][NextRace]_vars

(***************************************************************************)
(* Claims about extract_agent_data.                                        *)
(***************************************************************************)
Unwrapped == probe # Idle /\ probe.called

SlotNonNull(result, name) == name \in DOMAIN result.slots /\ result.slots[name] # NoneObj

\* C1: extract_agent_data returns the value of the first slot, in the order
\* output, data, result, content, message, text, whose value is not None; a
\* non-None output slot is returned whatever the other slots hold.
C1_FirstNonNullSlot ==
    Unwrapped =>
        \A i \in 1..Len(SlotOrder) :
            (/\ SlotNonNull(probe.result, SlotOrder[i])
             /\ \A j \in 1..(i - 1) : ~SlotNonNull(probe.result, SlotOrder[j]))
            => probe.ret.value = probe.result.slots[SlotOrder[i]]

\* the text slot wins although message holds None, data is absent, and output
\* is not there
C1_Witness ==
    /\ Unwrapped
    /\ DOMAIN probe.result.slots = {"message", "text"}
    /\ probe.result.slots["message"] = NoneObj
    /\ probe.ret.value = SlotPayload("text")

\* C2: when no slot yields a value, extract_agent_data returns the result
\* object itself, never None.
C2_FallbackIsIdentity ==
    Unwrapped =>
        ((\A i \in 1..Len(SlotOrder) : ~SlotNonNull(probe.result, SlotOrder[i]))
            => probe.ret.value = probe.result)

\* C3: extract_agent_data never raises, and a usage accessor that raises or is
\* not callable leaves the returned payload what it is without the accessor.
C3_UsageFailureSwallowed ==
    Unwrapped =>
        /\ ~probe.ret.exc
        /\ LET bare == ResultObj([k |-> "absent"], probe.result.slots)
               plain == extract_agent_data(bare).value
           IN probe.ret.value = IF plain = bare THEN probe.result ELSE plain
        /\ (probe.result.usage.k # "ok" => probe.ret.log = <<>>)

C3_Witness ==
    /\ Unwrapped
    /\ probe.result.usage.k = "raises"
    /\ ~probe.ret.exc
    /\ probe.ret.value = SlotPayload("data")

(***************************************************************************)
(* Claims about the validity gate.                                         *)
(***************************************************************************)
\* C4: the verdict is valid exactly when the description is non-empty, has no
\* "Error:" in it and is at least 50 characters long once trimmed: 49 trimmed
\* characters are invalid, 50 without the marker are valid.
C4_VerdictIff ==
    (gate # Idle /\ gate.checked) =>
        /\ gate.verdict \in {"ok", "http400"}
        /\ (gate.verdict = "ok") <=> (gate.d.mark # "full" /\ TrimLen(gate.d) >= 50)

\* exactly 50 trimmed characters, padded on both sides, pass the gate
C4_Witness ==
    /\ gate # Idle
    /\ gate.checked
    /\ TrimLen(gate.d) = 50
    /\ gate.d.lead > 0
    /\ gate.d.trail > 0
    /\ gate.d.mark = "none"
    /\ gate.verdict = "ok"

(***************************************************************************)
(* Claims about analyze_job.                                               *)
(***************************************************************************)
\* an analyze request whose agent answered has been responded to
AnalyzeAnswered == last # Idle /\ last.op = "analyze" /\ last.result # Idle /\ last.out # Idle

Present(data, a) == data.kind = "obj" /\ a \in DOMAIN data.attrs

\* the value under attribute a, or dflt when the payload has no such attribute
Field(data, a, dflt) == IF Present(data, a) THEN data.attrs[a] ELSE dflt

\* the description is empty, carries the marker or is too short once trimmed
InvalidJD(v) ==
    \/ v.t = "none"
    \/ v.t = "str" /\ (v.v = <<>> \/ Contains(v.v, ErrorMarker) \/ Len(strip(v.v)) < 50)

\* C5: an invalid verdict on the extracted description makes analyze_job
\* respond 400 and leave the stored jobs as they were.
C5_InvalidRejected ==
    (AnalyzeAnswered /\ InvalidJD(Field(last.out.data, "extracted_job_description", StrV(<<>>))))
        => (last.status = 400 /\ jobs = last.before)

\* C6: field extraction and validation never raise, whatever the field slots
\* hold: the gate is reached and ends in a verdict, and an invalid verdict is
\* the 400 rejection.
C6_ValidationNeverRaises ==
    AnalyzeAnswered =>
        /\ last.out.gate \in {"ok", "http400"}
        /\ (last.out.gate = "http400" => last.status = 400)

\* the payload holds, in every field it has, a value of the documented type
WellTyped(data) ==
    data.kind = "obj" => \A a \in DOMAIN data.attrs : data.attrs[a].t = BaseAnalyze[a].t

\* every absent field reads as its default, every present field as its value,
\* and a payload that only lacks fields raises nothing
FieldDefaults(score_default) ==
    AnalyzeAnswered =>
        LET d == last.out.data
            loc == last.out.loc
            row == last.out.row
        IN /\ loc.read =>
                /\ loc.company = Field(d, "company_name", StrV(UnknownCompany))
                /\ loc.title = Field(d, "job_title", StrV(DefaultTitle))
                /\ loc.match_score = Field(d, "match_score", score_default)
                /\ loc.extracted_jd = Field(d, "extracted_job_description", StrV(<<>>))
           /\ last.status = 200 =>
                /\ row.tailored_resume = Field(d, "tailored_resume_html", StrV(<<>>))
                /\ row.cover_letter = Field(d, "cover_letter_html", StrV(<<>>))
                /\ row.title = loc.title
                /\ row.match_score = loc.match_score
                /\ (~Present(d, "key_improvements") /\ ~Present(d, "company_name")
                        => row.company = StrV(UnknownCompany))
                /\ jobs[last.id] = row
           /\ WellTyped(d) => (loc.read /\ last.status \in {200, 400})

\* C7 as amended: a payload lacking a field yields the field's default and
\* never raises: company_name "Unknown Company", job_title "Job Title",
\* match_score 0, the description and the two HTML bodies the empty string,
\* key_improvements the empty sequence; present fields are unaffected.
C7_Defaults == FieldDefaults(IntV(0))

\* C7 as stated: the default of match_score is absent (None).
C7_AsStated == FieldDefaults(NoneV)

\* a payload with nothing but a valid description is stored with every default
C7_Witness ==
    /\ AnalyzeAnswered
    /\ last.out.data = DataObj([extracted_job_description |-> StrV(ValidText)])
    /\ last.status = 200
    /\ jobs[last.id].match_score = IntV(0)
    /\ jobs[last.id].company = StrV(UnknownCompany)
    /\ jobs[last.id].title = StrV(DefaultTitle)
    /\ jobs[last.id].tailored_resume = StrV(<<>>)

\* C8: the stored company is the first key improvement exactly when the
\* extracted company is "Unknown Company" and there is an improvement;
\* otherwise it is the extracted company.
C8_CompanyFallback ==
    (AnalyzeAnswered /\ last.status = 200) =>
        LET d == last.out.data
            company == Field(d, "company_name", StrV(UnknownCompany))
            improvements == Field(d, "key_improvements", ListV(<<>>))
            triggers == company = StrV(UnknownCompany) /\ improvements.t = "list" /\ improvements.v # <<>>
        IN /\ triggers => jobs[last.id].company = StrV(improvements.v[1])
           /\ ~triggers => jobs[last.id].company = company

\* the literal "Unknown Company" is replaced by the first of two improvements
C8_Witness ==
    /\ AnalyzeAnswered
    /\ last.status = 200
    /\ Present(last.out.data, "company_name")
    /\ last.out.data.attrs["company_name"] = StrV(UnknownCompany)
    /\ Field(last.out.data, "key_improvements", ListV(<<>>)) = ListV(<< <<"X">>, <<"Y">> >>)
    /\ jobs[last.id].company = StrV(<<"X">>)

(***************************************************************************)
(* Claims about placeholders and about regenerate_job_content.             *)
(***************************************************************************)
RegenerateAnswered == last # Idle /\ last.op = "regenerate" /\ last.result # Idle

\* C9: a field slot holding an invokable placeholder is treated as absent and
\* the placeholder reaches no stored job: analyze responds and stores what it
\* does for the payload without that field, regenerate keeps the stored value.
C9_PlaceholderIsAbsent ==
    /\ \A id \in DOMAIN jobs : \A c \in DOMAIN jobs[id] : ~Callable(jobs[id][c])
    /\ (AnalyzeAnswered /\ last.out.data.kind = "obj") =>
          \A a \in DOMAIN last.out.data.attrs :
              Callable(last.out.data.attrs[a]) =>
                  LET bare == analyze_tail(DataObj(Without(last.out.data.attrs, a)), last.req)
                  IN last.status = bare.status /\ last.out.row = bare.row
    /\ (RegenerateAnswered /\ last.out.data.kind = "obj" /\ last.id \in DOMAIN jobs) =>
          /\ Callable(Field(last.out.data, "tailored_resume_html", NoneV))
                => jobs[last.id].tailored_resume = last.before[last.id].tailored_resume
          /\ Callable(Field(last.out.data, "cover_letter_html", NoneV))
                => jobs[last.id].cover_letter = last.before[last.id].cover_letter
          /\ Callable(Field(last.out.data, "match_score", NoneV))
                => jobs[last.id].match_score = last.before[last.id].match_score

\* the value is there, is no placeholder, and int() of it fails
NotConvertible(v) ==
    \/ v.t \in {"inf", "list"}
    \/ v.t = "str" /\ (strip(v.v) = <<>> \/ \E i \in 1..Len(strip(v.v)) : ~IsDigit(strip(v.v)[i]))

\* C10: a match_score that cannot be converted to an integer is ignored: the
\* stored score is unchanged, the resume and the cover letter of the same
\* payload are committed, and the response is 200.
C10_BadScoreIgnored ==
    (RegenerateAnswered /\ last.out.data.kind = "obj"
        /\ NotConvertible(Field(last.out.data, "match_score", NoneV))) =>
        /\ last.status = 200
        /\ jobs[last.id].match_score = last.before[last.id].match_score
        /\ jobs[last.id].tailored_resume = Field(last.out.data, "tailored_resume_html", NoneV)
        /\ jobs[last.id].cover_letter = Field(last.out.data, "cover_letter_html", NoneV)

(***************************************************************************)
(* Claims about what analyze_job stores.                                   *)
(***************************************************************************)
\* C11: after any sequence of analyze and regenerate requests, whatever the
\* agent payloads carry, the match_score of every stored job is an integer
\* from 0 to 100, or absent.
C11_ScoreInRange ==
    \A id \in DOMAIN jobs :
        \/ jobs[id].match_score = NoneV
        \/ jobs[id].match_score.t = "int" /\ jobs[id].match_score.v \in 0..100

\* the agent answered with an object none of whose slots yields a value and
\* whose usage accessor raises
NoSlotAnswer ==
    /\ last # Idle
    /\ last.op = "analyze"
    /\ last.result # Idle
    /\ last.result.usage.k = "raises"
    /\ \A i \in 1..Len(SlotOrder) : ~SlotNonNull(last.result, SlotOrder[i])

\* C12: for an agent result with no usable slot and a raising usage accessor
\* the unwrapper returns the original object and raises nothing, every
\* extracted field takes its default, the verdict is invalid on the empty
\* default description, and analyze_job responds 400 and stores no job.
C12_NoSlotScenario ==
    NoSlotAnswer =>
        /\ last.out # Idle
        /\ last.out.data = last.result
        /\ last.out.loc = [read |-> TRUE, company |-> StrV(UnknownCompany), title |-> StrV(DefaultTitle),
                           match_score |-> IntV(0), extracted_jd |-> StrV(<<>>)]
        /\ last.out.gate = "http400"
        /\ last.status = 400
        /\ jobs = last.before


\* the description is a string that is non-empty, free of the marker and at
\* least 50 characters long once trimmed
ValidJD(v) ==
    v.t = "str" /\ v.v # <<>> /\ ~Contains(v.v, ErrorMarker) /\ Len(strip(v.v)) >= 50

\* C13: whenever the verdict is valid, analyze_job responds 200 and stores
\* exactly one new job, whose company is the extracted company, whose
\* description is the extracted description that passed the gate, whose score
\* is the payload's score and whose status is todo; so every stored job has a
\* description that is non-empty, free of "Error:" and at least 50 trimmed
\* characters long.
C13_ValidStored ==
    /\ (AnalyzeAnswered /\ last.out.gate = "ok") =>
          /\ last.status = 200
          /\ last.id \notin DOMAIN last.before
          /\ DOMAIN jobs = DOMAIN last.before \cup {last.id}
          /\ \A id \in DOMAIN last.before : jobs[id] = last.before[id]
          /\ (last.out.loc.company # StrV(UnknownCompany) => jobs[last.id].company = last.out.loc.company)
          /\ jobs[last.id].original_jd = last.out.loc.extracted_jd
          /\ jobs[last.id].match_score = Field(last.out.data, "match_score", IntV(0))
          /\ jobs[last.id].status = StrV(Todo)
    /\ \A id \in DOMAIN jobs : ValidJD(jobs[id].original_jd)

(***************************************************************************)
(* Claims about the resume requests.                                       *)
(***************************************************************************)
IntakeAnswered == last # Idle /\ last.op \in IntakeOps

Selected(table) == {id \in DOMAIN table : table[id].is_selected}

\* C15: after a successful upload, import-url or manual add the new resume
\* is selected and no other stored resume is, whatever was selected before.
C15_NewIsOnlySelected ==
    (IntakeAnswered /\ last.status = 200) =>
        /\ last.id \notin DOMAIN last.before
        /\ DOMAIN resumes = DOMAIN last.before \cup {last.id}
        /\ Selected(resumes) = {last.id}

\* an import has taken the selection from a resume that was selected
C15_Witness ==
    /\ IntakeAnswered
    /\ last.op = "import"
    /\ last.status = 200
    /\ Selected(last.before) # {}
    /\ Selected(resumes) = {last.id}

\* the text is the tool's error report or is too short once trimmed
Insufficient(content) == StartsWith(content, ErrorMarker) \/ Len(strip(content)) < 50

\* C16: a rejected intake changes nothing.  An upload whose file name does
\* not end in .pdf, an upload or import whose extracted content starts with
\* "Error:" or has fewer than 50 trimmed characters, and a manual add with
\* fewer than 50 trimmed characters are answered 400, and a 400 leaves the
\* resumes table, selected flags included, as it was.
C16_RejectedChangesNothing ==
    IntakeAnswered =>
        /\ (last.op = "upload" /\ ~EndsWith(last.req.filename, PdfSuffix)) => last.status = 400
        /\ (last.op \in {"upload", "import"} /\ Insufficient(last.content)) => last.status = 400
        /\ (last.op = "manual" /\ Len(strip(last.req.content)) < 50) => last.status = 400
        /\ last.status = 400 => resumes = last.before
        /\ last.status \in {200, 400}

\* an upload whose extraction reported an error is rejected while a resume
\* is selected, and that resume stays selected
C16_Witness ==
    /\ IntakeAnswered
    /\ last.op = "upload"
    /\ last.status = 400
    /\ StartsWith(last.content, ErrorMarker)
    /\ Selected(last.before) # {}
    /\ resumes = last.before

(***************************************************************************)
(* Claims about the job requests.                                          *)
(***************************************************************************)
JobOps == {"get", "update", "delete", "pdf", "regenerate"}

\* the request named a job that was stored
UpdateAnswered == last # Idle /\ last.op = "update" /\ last.id \in DOMAIN last.before

\* the status the claim gives the job
StatusRule(old, req) ==
    IF req.status # NoneV THEN req.status
    ELSE IF req.applied = BoolV(TRUE) THEN StrV(Applied)
    ELSE IF req.applied = BoolV(FALSE) /\ old = StrV(Applied) THEN StrV(Todo)
    ELSE old

\* C17: update_job sets the status to the request's status when it carries
\* one, whatever the applied flag; otherwise applied=true sets applied,
\* applied=false sets todo only when the status is applied and leaves todo and
\* interview alone; a request with neither leaves the status unchanged.
C17_StatusRule ==
    UpdateAnswered =>
        /\ last.id \in DOMAIN jobs
        /\ jobs[last.id].status = StatusRule(last.before[last.id].status, last.req)

\* C18: get, update, delete, PDF export and regenerate addressed to an id for
\* which no job is stored respond 404 and leave every stored job and resume
\* unchanged, and regenerate then does not call the agent.
C18_AbsentIs404 ==
    (last # Idle /\ last.op \in JobOps /\ last.id \notin DOMAIN last.before) =>
        /\ last.status = 404
        /\ jobs = last.before
        /\ resumes = last.stored
        /\ last.result = Idle
        /\ \A i \in Slots : inflight[i] = Idle \/ inflight[i].op # "regenerate"

\* regenerate is refused for the id of a job that was deleted
C18_Witness ==
    /\ last # Idle
    /\ last.op = "regenerate"
    /\ last.id = 1
    /\ DOMAIN jobs = {2}
    /\ last.status = 404
    /\ jobs = last.before

\* C19: a successful delete_job removes exactly the addressed job: the id is
\* no longer stored, so that a request on it is answered 404, and every other
\* job and every resume is unchanged.
C19_DeleteRemovesOne ==
    /\ (last # Idle /\ last.op = "delete" /\ last.status = 200) =>
          /\ last.id \in DOMAIN last.before
          /\ DOMAIN jobs = DOMAIN last.before \ {last.id}
          /\ \A id \in DOMAIN jobs : jobs[id] = last.before[id]
          /\ resumes = last.stored
    /\ (last # Idle /\ last.op \in JobOps /\ last.status # 404) => last.id \in DOMAIN last.before

\* the first job was deleted and the second, which had been updated, is
\* stored as it was
C19_Witness ==
    /\ last # Idle
    /\ last.op = "delete"
    /\ last.status = 200
    /\ last.id = 1
    /\ DOMAIN jobs = {2}
    /\ jobs[2].status = StrV(Interview)

\* C20: analyze_job looks the resume up before anything else: for a
\* resume_id that names no stored resume it responds 404, calls no agent and
\* stores no job.
C20_ResumeCheckedFirst ==
    /\ \A i \in Slots :
          (inflight[i] # Idle /\ inflight[i].op = "analyze") => inflight[i].resume_id \in DOMAIN resumes
    /\ (last # Idle /\ last.op = "analyze" /\ last.req.resume_id \notin DOMAIN last.stored) =>
          /\ last.status = 404
          /\ last.result = Idle
          /\ jobs = last.before

\* an analyze request for resume 2, which is not stored, was refused
C20_Witness ==
    /\ last # Idle
    /\ last.op = "analyze"
    /\ last.req.resume_id = 2
    /\ 2 \notin DOMAIN resumes
    /\ last.status = 404
    /\ jobs = <<>>

(***************************************************************************)
(* Claims about failures of the agent and about regeneration.              *)
(***************************************************************************)
\* the request answered last was resumed by an exception of the agent call
AgentRaised ==
    /\ last # Idle
    /\ last.op \in {"analyze", "regenerate"}
    /\ "op" \in DOMAIN last.req
    /\ last.result = Idle

\* C21: when the agent call raises, analyze_job and regenerate_job_content
\* respond 500 and leave the store as it was: no job is added and the job's
\* resume, cover letter and match score keep their values.
C21_AgentFailureChangesNothing ==
    AgentRaised =>
        /\ last.status = 500
        /\ jobs = last.before
        /\ resumes = last.stored

\* the agent failed on a regeneration of a stored job, which is stored as it
\* was loaded
C21_Witness ==
    /\ AgentRaised
    /\ last.op = "regenerate"
    /\ last.status = 500
    /\ last.id \in DOMAIN jobs
    /\ jobs[last.id] = last.req.job

\* the fields regenerate_job_content reads from the payload
RegenerateFields == {"tailored_resume_html", "cover_letter_html", "match_score"}

\* the agent answered a regeneration whose job is stored when it resumes
RegenerateResumed == RegenerateAnswered /\ last.id \in DOMAIN last.before

\* C22: when the payload exposes none of the fields, a regeneration of a job
\* that is stored when the agent answers responds 200 and writes nothing: the
\* resume, cover letter and match score it returns and leaves stored are the
\* ones stored before.
C22_NoFieldsChangesNothing ==
    (RegenerateResumed /\ last.out.data.kind = "obj"
        /\ \A a \in RegenerateFields : ~Present(last.out.data, a)) =>
        /\ last.status = 200
        /\ jobs = last.before
        /\ resumes = last.stored

\* a regeneration of the stored job 1 was answered with a payload without
\* fields
C22_Witness ==
    /\ RegenerateResumed
    /\ last.out.data = DataObj(<<>>)
    /\ last.id = 1
    /\ last.status = 200
    /\ jobs[1] = last.before[1]

\* C23: a successful regeneration leaves the stored resume of the job as it
\* was before, even when the payload carries a resume body.
C23_ResumeKept ==
    (RegenerateResumed /\ last.status = 200) =>
        jobs[last.id].tailored_resume = last.before[last.id].tailored_resume

\* the regeneration answered last had lost its job to delete_job while it
\* was suspended
LostItsJob ==
    /\ last # Idle
    /\ last.op = "regenerate"
    /\ "gone" \in DOMAIN last.req
    /\ last.req.gone

\* C29: a regeneration whose job was deleted while it awaited the agent ends
\* in an error response and writes nothing: it neither re-creates the job nor
\* answers 200 with regenerated content.
C29_DeletedStaysDeleted ==
    LostItsJob =>
        /\ last.status # 200
        /\ jobs = last.before

(***************************************************************************)
(* Claims about the status of stored jobs.                                 *)
(***************************************************************************)
\* C28: the status of every stored job is todo, applied or interview,
\* whatever status strings update_job requests have carried.
C28_StatusInEnum == \A id \in DOMAIN jobs : jobs[id].status \in JobStatus

(***************************************************************************)
(* Claims about the selected resume.                                       *)
(***************************************************************************)
\* C26: at most one resume is selected in every reachable state, whatever
\* upload, import, manual add, update and select requests have run and
\* however they interleaved at their suspension points.
C26_AtMostOneSelected == Cardinality(Selected(resumes)) <= 1

\* set_selected_resume ran while an intake request was suspended, and the
\* resume it named is the selected one
C26_Witness ==
    /\ last # Idle
    /\ last.op = "select"
    /\ last.status = 200
    /\ \E i \in Slots : inflight[i] # Idle /\ inflight[i].op \in IntakeOps
    /\ Selected(resumes) = {last.id}

UpdateResumeAnswered == last # Idle /\ last.op = "update_resume" /\ last.status = 200

\* C27: update_resume gives its target the flag of the request; it unselects
\* every other resume when the request selects a target that was not
\* selected and leaves the other resumes as they were in every other case;
\* unselecting the selected resume leaves none selected.
C27_UpdateFrame ==
    UpdateResumeAnswered =>
        LET t == last.id
            was == last.before
        IN /\ DOMAIN resumes = DOMAIN was
           /\ resumes[t].is_selected = last.req.is_selected
           /\ IF last.req.is_selected /\ ~was[t].is_selected
              THEN \A id \in DOMAIN resumes \ {t} :
                      resumes[id] = [was[id] EXCEPT !.is_selected = FALSE]
              ELSE \A id \in DOMAIN resumes \ {t} : resumes[id] = was[id]
           /\ (~last.req.is_selected /\ was[t].is_selected) => Selected(resumes) = {}

\* update_resume has unselected the selected one of two resumes
C27_Witness ==
    /\ UpdateResumeAnswered
    /\ Cardinality(DOMAIN resumes) = 2
    /\ ~last.req.is_selected
    /\ Selected(last.before) = {last.id}
    /\ Selected(resumes) = {}

\* the cleaning agent raised, or its answer could not be processed: the
\* unwrapping raised or gave something that is no string
CleaningFailed ==
    /\ last # Idle
    /\ last.op = "manual"
    /\ "result" \in DOMAIN last.req
    /\ \/ last.req.result = Idle
       \/ extract_agent_data(last.req.result).exc
       \/ extract_agent_data(last.req.result).value.kind # "str"

\* C30: a failure of the cleaning agent, or of processing its answer, does
\* not fail add_resume_manual: the response is 200 and the raw pasted content
\* is stored as a new resume, which is the only selected one.
C30_CleaningFailureKeepsRaw ==
    CleaningFailed =>
        /\ last.status = 200
        /\ manual_gate(last.req.content) = "ok"
        /\ last.id \notin DOMAIN last.before
        /\ DOMAIN resumes = DOMAIN last.before \cup {last.id}
        /\ resumes[last.id].content = last.req.content
        /\ Selected(resumes) = {last.id}

\* the agent raised on a pasted resume while another resume was selected
C30_Witness ==
    /\ CleaningFailed
    /\ last.req.result = Idle
    /\ last.status = 200
    /\ Selected(last.before) # {}
    /\ resumes[last.id].content = last.req.content

(***************************************************************************)
(* Claims about the text tools.                                            *)
(***************************************************************************)
\* the string reports a failure
IsError(s) == StartsWith(s, ErrorMarker)

\* scrape_job_description has returned to import_resume_from_url
Scraped == last # Idle /\ last.op = "import"

\* C24: scrape_job_description returns a string in every case.  A URL that
\* starts with neither http:// nor https:// gives the invalid-URL error and
\* no request is sent; an HTTP status error, a connection error, any other
\* exception and a page of fewer than 100 characters once trimmed each give
\* a string starting with "Error:"; otherwise the trimmed page is returned.
C24_ScrapeReportsErrors ==
    /\ \A i \in Slots : (inflight[i] # Idle /\ inflight[i].op = "import") => url_ok(inflight[i].req.url)
    /\ Scraped =>
          IF ~url_ok(last.req.url)
          THEN last.content = ScrapeInvalidUrl /\ IsError(last.content) /\ "net" \notin DOMAIN last.req
          ELSE IF last.req.net.k # "ok" THEN IsError(last.content)
          ELSE IF Len(strip(last.req.net.text)) < 100 THEN IsError(last.content)
          ELSE last.content = strip(last.req.net.text)

\* a page of 99 characters between white space was fetched and refused
C24_Witness ==
    /\ Scraped
    /\ url_ok(last.req.url)
    /\ last.req.net.k = "ok"
    /\ Len(last.req.net.text) > 100
    /\ Len(strip(last.req.net.text)) = 99
    /\ IsError(last.content)

\* extract_text_from_pdf has returned to upload_resume
Extracted == last # Idle /\ last.op = "upload" /\ "md" \in DOMAIN last.req

\* the trimmed text of a library call, empty when the call raised
Got(outcome, text) == IF outcome.k = "ok" THEN strip(text) ELSE <<>>

\* C25: extract_text_from_pdf returns a string in every case.  The text of
\* MarkItDown is returned when it has 50 characters or more, whatever
\* PyMuPDF would give; otherwise the text of PyMuPDF replaces it only when
\* strictly longer, and the text kept is returned only with 50 trimmed
\* characters or more; every other case, both libraries failing included,
\* gives a string starting with "Error:".
C25_PdfFallbackOrder ==
    Extracted =>
        LET md == Got(last.req.md, IF last.req.md.k = "ok" THEN last.req.md.text ELSE <<>>)
            fz == Got(last.req.fz, IF last.req.fz.k = "ok" THEN JoinLines(last.req.fz.text) ELSE <<>>)
            kept == IF Len(fz) > Len(md) THEN fz ELSE md
        IN IF last.req.io # "ok" THEN IsError(last.content)
           ELSE IF Len(md) >= 50 THEN last.content = md
           ELSE IF Len(strip(kept)) >= 50 THEN last.content = kept
           ELSE IsError(last.content)

\* MarkItDown gave 50 characters and its text was returned although PyMuPDF
\* would have given more
C25_Witness ==
    /\ Extracted
    /\ last.req.md.k = "ok"
    /\ last.req.fz.k = "ok"
    /\ Len(last.req.md.text) = 50
    /\ Len(JoinLines(last.req.fz.text)) > 50
    /\ last.content = last.req.md.text

====
